---- MODULE Spec2Model ----
(***************************************************************************)
(* Model of the content-search MCP server (src/index.ts): the text helpers *)
(* (stripHtml, matchesQuery, extractSnippet, extractTextFromRichText,      *)
(* extractPlainTextSnippet), the two retrieval helpers                     *)
(* (fetchAllGhostRecords, contentfulGraphQL) and the five tool handlers.   *)
(*                                                                         *)
(* A JavaScript string is a sequence of UTF-16 code units; a code unit is  *)
(* written as a TLA+ string ("q", "Q", "x", "<", ...).  "Idot" is U+0130   *)
(* (capital I with dot above), whose lowercase form is the two code units  *)
(* "i" (U+0069) and "dot" (U+0307).  A value that may be null/undefined is *)
(* a record [isNull, str].                                                 *)
(***************************************************************************)
EXTENDS Integers, Sequences, FiniteSets, TLC

VARIABLES
    \* -- text helpers applied to one (text, query) pair
    text, query, computed, matched, snippet, plainSnippet,
    \* -- extractTextFromRichText applied to one node
    node, flattened, flatDone,
    \* -- the environment of the server: the backends and the MCP client
    backend, concurrency,
    \* -- one tool invocation per call slot
    pc, tool, toolQuery, all, page, hasMore, result, output,
    \* -- history of each invocation's traffic with its backend
    requested, received

textVars == <<text, query, computed, matched, snippet, plainSnippet>>
richVars == <<node, flattened, flatDone>>
envVars == <<backend, concurrency>>
callVars == <<pc, tool, toolQuery, all, page, hasMore, result, output, requested, received>>
vars == <<textVars, richVars, envVars, callVars>>

(***************************** bounds **************************************)
MaxNodes == 4
NumCalls == 2
MaxPage == 2
MaxQueryLen == 2
MaxCoreLen == 2

(************************ JavaScript strings *******************************)
Null == [isNull |-> TRUE, str |-> <<>>]
Str(s) == [isNull |-> FALSE, str |-> s]

\* `!text` of JavaScript: null, undefined and "" are falsy.
Falsy(t) == t.isNull \/ t.str = <<>>

\* One code unit of String.prototype.toLowerCase.
LowerChar(c) ==
    CASE c = "Q" -> <<"q">>
      [] c = "R" -> <<"r">>
      [] c = "X" -> <<"x">>
      [] c = "Idot" -> <<"i", "dot">>
      [] OTHER -> <<c>>

RECURSIVE toLowerCase(_)
toLowerCase(s) ==
    IF Len(s) = 0 THEN <<>>
    ELSE IF Len(s) = 1 THEN LowerChar(s[1])
    ELSE LET h == Len(s) \div 2
         IN  toLowerCase(SubSeq(s, 1, h)) \o toLowerCase(SubSeq(s, h + 1, Len(s)))

\* String.prototype.includes
includes(hay, needle) ==
    \E i \in 0..(Len(hay) - Len(needle)) :
        SubSeq(hay, i + 1, i + Len(needle)) = needle

\* String.prototype.indexOf: the least index of an occurrence, or -1.
indexOf(hay, needle) ==
    LET hits == {i \in 0..(Len(hay) - Len(needle)) :
                    SubSeq(hay, i + 1, i + Len(needle)) = needle}
    IN  IF hits = {} THEN -1
        ELSE CHOOSE i \in hits : \A j \in hits : i <= j

\* String.prototype.slice(start, end) for 0 <= start and 0 <= end <= length.
slice(s, start, end) ==
    IF start >= end \/ start >= Len(s) THEN <<>> ELSE SubSeq(s, start + 1, end)

Max(a, b) == IF a >= b THEN a ELSE b
Min(a, b) == IF a <= b THEN a ELSE b

Ellipsis == <<".", ".", ".">>

(************************** text helpers ***********************************)
contextChars == 150
plainContextChars == 150

matchesQueryCaseSensitive(t, q) ==
    IF Falsy(t) THEN FALSE ELSE includes(t.str, toLowerCase(q))

matchesQuery(t, q) ==
    IF Falsy(t) THEN FALSE
    ELSE includes(toLowerCase(t.str), toLowerCase(q))

extractSnippetNoTrailing(t, q) ==
    IF Falsy(t) THEN Null
    ELSE LET idx == indexOf(toLowerCase(t.str), toLowerCase(q))
         IN  IF idx = -1 THEN Null
             ELSE LET start == Max(0, idx - contextChars)
                      end == Min(Len(t.str), idx + Len(q) + contextChars)
                      s0 == slice(t.str, start, end)
                      s1 == IF start > 0 THEN Ellipsis \o s0 ELSE s0
                  IN  Str(s1)

extractSnippet(t, q) ==
    IF Falsy(t) THEN Null
    ELSE LET idx == indexOf(toLowerCase(t.str), toLowerCase(q))
         IN  IF idx = -1 THEN Null
             ELSE LET start == Max(0, idx - contextChars)
                      end == Min(Len(t.str), idx + Len(q) + contextChars)
                      s0 == slice(t.str, start, end)
                      s1 == IF start > 0 THEN Ellipsis \o s0 ELSE s0
                      s2 == IF end < Len(t.str) THEN s1 \o Ellipsis ELSE s1
                  IN  Str(s2)

extractPlainTextSnippet(t, q) ==
    IF Falsy(t) THEN Null
    ELSE LET idx == indexOf(toLowerCase(t.str), toLowerCase(q))
         IN  IF idx = -1 THEN Null
             ELSE LET start == Max(0, idx - plainContextChars)
                      end == Min(Len(t.str), idx + Len(q) + plainContextChars)
                      s0 == slice(t.str, start, end)
                      s1 == IF start > 0 THEN Ellipsis \o s0 ELSE s0
                      s2 == IF end < Len(t.str) THEN s1 \o Ellipsis ELSE s1
                  IN  Str(s2)

(*************************** rich text *************************************)
\* A Contentful rich-text node as the code reads it: `absent` for a missing
\* (null/undefined) node, nodeType, value (Null when the key is missing),
\* and content with isArray = Array.isArray(node.content).
AbsentNode ==
    [absent |-> TRUE, nodeType |-> "", value |-> Null, isArray |-> FALSE, content |-> <<>>]
TextNode(v) ==
    [absent |-> FALSE, nodeType |-> "text", value |-> v, isArray |-> FALSE, content |-> <<>>]
ContainerNode(children) ==
    [absent |-> FALSE, nodeType |-> "paragraph", value |-> Null, isArray |-> TRUE,
     content |-> children]
OtherNode ==
    [absent |-> FALSE, nodeType |-> "hr", value |-> Null, isArray |-> FALSE, content |-> <<>>]
TextNodeWithContent ==
    [absent |-> FALSE, nodeType |-> "text", value |-> Str(<<"a">>), isArray |-> TRUE,
     content |-> <<TextNode(Str(<<"b">>))>>]

\* Array.prototype.join(sep) on an array of strings.
RECURSIVE join(_, _)
join(parts, sep) ==
    IF Len(parts) = 0 THEN <<>>
    ELSE IF Len(parts) = 1 THEN parts[1]
    ELSE parts[1] \o sep \o join(Tail(parts), sep)

RECURSIVE extractTextNoSeparator(_)
extractTextNoSeparator(n) ==
    IF n.absent THEN <<>>
    ELSE IF n.nodeType = "text" THEN (IF Falsy(n.value) THEN <<>> ELSE n.value.str)
    ELSE IF n.isArray
         THEN join([i \in 1..Len(n.content) |-> extractTextNoSeparator(n.content[i])], <<>>)
    ELSE <<>>

RECURSIVE extractTextFromRichText(_)
extractTextFromRichText(n) ==
    IF n.absent THEN <<>>
    ELSE IF n.nodeType = "text" THEN (IF Falsy(n.value) THEN <<>> ELSE n.value.str)
    ELSE IF n.isArray
         THEN join([i \in 1..Len(n.content) |-> extractTextFromRichText(n.content[i])], <<" ">>)
    ELSE <<>>

(***************************** Ghost helpers *******************************)
\* html.replace(/<[^>]*>/g, ""): every "<", up to the first ">" after it, goes;
\* a "<" with no ">" after it stays.
RECURSIVE stripHtml(_)
stripHtml(html) ==
    IF Len(html) = 0 THEN <<>>
    ELSE IF html[1] = "<" /\ \E j \in 2..Len(html) : html[j] = ">"
         THEN LET close == CHOOSE j \in 2..Len(html) :
                               html[j] = ">" /\ \A k \in 2..(j - 1) : html[k] # ">"
              IN  stripHtml(SubSeq(html, close + 1, Len(html)))
         ELSE <<html[1]>> \o stripHtml(Tail(html))

\* const bodyText = p.html ? stripHtml(p.html) : ""
bodyTextOf(p) == IF Falsy(p.html) THEN Str(<<>>) ELSE Str(stripHtml(p.html.str))

\* item.content?.json flattened; a record's rich field holds that node.
richTextOf(n) == Str(extractTextFromRichText(n))

\* p.excerpt?.slice(0, 200)
excerptLimit == 200
excerptOf(p) ==
    IF p.excerpt.isNull THEN Null
    ELSE Str(slice(p.excerpt.str, 0, Min(Len(p.excerpt.str), excerptLimit)))

\* a || b on values that are null or strings: the first truthy one, else the last.
OrElse(a, b) == IF Falsy(a) THEN b ELSE a

\* Array.prototype.filter with the test's verdict per element.
RECURSIVE filter(_, _)
filter(items, keep) ==
    IF Len(items) = 0 THEN <<>>
    ELSE LET rest == filter(Tail(items), [k \in 1..(Len(items) - 1) |-> keep[k + 1]])
         IN  IF keep[1] THEN <<items[1]>> \o rest ELSE rest

(*************************** tool pipelines ********************************)
\* search_blog_posts: the filter and the map over the fetched posts.
blogPostTest(p, q) ==
    \/ matchesQuery(p.title, q)
    \/ matchesQuery(p.excerpt, q)
    \/ matchesQuery(bodyTextOf(p), q)

blogPostResult(p, q) ==
    [title |-> p.title,
     slug |-> p.slug,
     url |-> <<"/blog/", p.slug>>,
     excerpt |-> excerptOf(p),
     matched_snippet |-> extractSnippet(bodyTextOf(p), q)]

blogPostMatches(posts, q) ==
    LET kept == filter(posts, [k \in 1..Len(posts) |-> blogPostTest(posts[k], q)])
    IN  [k \in 1..Len(kept) |-> blogPostResult(kept[k], q)]

\* search_blog_pages
blogPageTest(p, q) ==
    matchesQuery(p.title, q) \/ matchesQuery(bodyTextOf(p), q)

blogPageResult(p, q) ==
    [title |-> p.title,
     slug |-> p.slug,
     url |-> <<"/blog/", p.slug>>,
     matched_snippet |-> extractSnippet(bodyTextOf(p), q)]

blogPageMatches(pages, q) ==
    LET kept == filter(pages, [k \in 1..Len(pages) |-> blogPageTest(pages[k], q)])
    IN  [k \in 1..Len(kept) |-> blogPageResult(kept[k], q)]

\* search_learn_pages
learnPageTest(item, q) ==
    \/ matchesQuery(item.title, q)
    \/ matchesQuery(item.metaTitle, q)
    \/ matchesQuery(item.metaDescription, q)
    \/ matchesQuery(richTextOf(item.content), q)

learnPageResult(item, q) ==
    [title |-> item.title,
     url |-> IF item.section.isNull THEN <<"/learn/", item.url>>
             ELSE <<"/learn/", item.section.str, "/", item.url>>,
     metaDescription |-> item.metaDescription,
     matched_snippet |->
        OrElse(extractPlainTextSnippet(item.title, q),
        OrElse(extractPlainTextSnippet(item.metaTitle, q),
        OrElse(extractPlainTextSnippet(item.metaDescription, q),
               extractPlainTextSnippet(richTextOf(item.content), q))))]

learnPageMatches(items, q) ==
    LET kept == filter(items, [k \in 1..Len(items) |-> learnPageTest(items[k], q)])
    IN  [k \in 1..Len(kept) |-> learnPageResult(kept[k], q)]

\* search_case_studies
caseStudyTestWithoutImpact(item, q) ==
    \/ matchesQuery(item.name, q)
    \/ matchesQuery(item.metaTitle, q)
    \/ matchesQuery(item.metaDescription, q)
    \/ matchesQuery(item.overview, q)
    \/ matchesQuery(item.quoteText, q)
    \/ matchesQuery(item.useCase, q)
    \/ matchesQuery(richTextOf(item.content), q)

caseStudyTest(item, q) ==
    \/ matchesQuery(item.name, q)
    \/ matchesQuery(item.metaTitle, q)
    \/ matchesQuery(item.metaDescription, q)
    \/ matchesQuery(item.overview, q)
    \/ matchesQuery(item.quoteText, q)
    \/ matchesQuery(item.useCase, q)
    \/ matchesQuery(item.impact, q)
    \/ matchesQuery(richTextOf(item.content), q)

caseStudyResult(item, q) ==
    [name |-> item.name,
     slug |-> item.slug,
     url |-> IF Falsy(item.externalLink) THEN <<"/case-studies/", item.slug>>
             ELSE <<item.externalLink.str>>,
     overview |-> item.overview,
     useCase |-> item.useCase,
     impact |-> item.impact,
     matched_snippet |->
        OrElse(extractPlainTextSnippet(item.name, q),
        OrElse(extractPlainTextSnippet(item.metaTitle, q),
        OrElse(extractPlainTextSnippet(item.metaDescription, q),
        OrElse(extractPlainTextSnippet(item.overview, q),
        OrElse(extractPlainTextSnippet(item.quoteText, q),
        OrElse(extractPlainTextSnippet(item.useCase, q),
        OrElse(extractPlainTextSnippet(item.impact, q),
               extractPlainTextSnippet(richTextOf(item.content), q))))))))]

caseStudyMatches(items, q) ==
    LET kept == filter(items, [k \in 1..Len(items) |-> caseStudyTest(items[k], q)])
    IN  [k \in 1..Len(kept) |-> caseStudyResult(kept[k], q)]

\* search_events: internal event pages, then event cards
internalEventTest(evt, q) ==
    \/ matchesQuery(evt.heroTitle, q)
    \/ matchesQuery(evt.metaDescription, q)
    \/ matchesQuery(richTextOf(evt.additionalEventDetails), q)
    \/ matchesQuery(richTextOf(evt.agenda), q)

internalEventResult(evt, q) ==
    [type |-> "internal_event",
     title |-> evt.heroTitle,
     description |-> evt.metaDescription,
     url |-> <<"/events/", evt.url>>,
     matched_snippet |->
        OrElse(extractPlainTextSnippet(evt.heroTitle, q),
        OrElse(extractPlainTextSnippet(evt.metaDescription, q),
        OrElse(extractPlainTextSnippet(richTextOf(evt.additionalEventDetails), q),
               extractPlainTextSnippet(richTextOf(evt.agenda), q))))]

eventCardTest(evt, q) ==
    matchesQuery(evt.title, q) \/ matchesQuery(evt.description, q)

eventCardResult(evt, q) ==
    [type |-> "event_card",
     title |-> evt.title,
     description |-> evt.description,
     url |-> <<evt.link>>,
     matched_snippet |->
        OrElse(extractPlainTextSnippet(evt.title, q),
               extractPlainTextSnippet(evt.description, q))]

eventMatches(internalEvents, eventCards, q) ==
    LET keptInternal == filter(internalEvents,
            [k \in 1..Len(internalEvents) |-> internalEventTest(internalEvents[k], q)])
        keptCards == filter(eventCards,
            [k \in 1..Len(eventCards) |-> eventCardTest(eventCards[k], q)])
        matchedInternal == [k \in 1..Len(keptInternal) |-> internalEventResult(keptInternal[k], q)]
        matchedCards == [k \in 1..Len(keptCards) |-> eventCardResult(keptCards[k], q)]
    IN  matchedInternal \o matchedCards

(**************************** CMS content **********************************)
\* Records carry the fields the handlers read for matching, snippets and
\* url; the display-only copies (published_at, tags, section title,
\* subSection, category, date) are left out.
Post(slug, title, excerpt, html) ==
    [slug |-> slug, title |-> title, excerpt |-> excerpt, html |-> html]
GhostPage(slug, title, html) == [slug |-> slug, title |-> title, html |-> html]
LearnPage(url, section, title, metaTitle, metaDescription, content) ==
    [url |-> url, section |-> section, title |-> title, metaTitle |-> metaTitle,
     metaDescription |-> metaDescription, content |-> content]
CaseStudy(slug, externalLink, name, metaTitle, metaDescription, overview, quoteText, useCase, impact, content) ==
    [slug |-> slug, externalLink |-> externalLink, name |-> name, metaTitle |-> metaTitle,
     metaDescription |-> metaDescription, overview |-> overview, quoteText |-> quoteText,
     useCase |-> useCase, impact |-> impact, content |-> content]
InternalEvent(url, heroTitle, metaDescription, additionalEventDetails, agenda) ==
    [url |-> url, heroTitle |-> heroTitle, metaDescription |-> metaDescription,
     additionalEventDetails |-> additionalEventDetails, agenda |-> agenda]
EventCard(link, title, description) ==
    [link |-> link, title |-> title, description |-> description]

Doc(words) == ContainerNode(<<ContainerNode([k \in 1..Len(words) |-> TextNode(Str(words[k]))])>>)

PostsA ==
    <<Post("p1", Str(<<"x", "Q", "x">>), Str(<<"r", "x">>), Str(<<"<", "p", ">", "x", "<", "/", "p", ">">>)),
      Post("p2", Str(<<"x">>), Null, Str(<<"<", "q", ">", "x", "r", "<", "/", "q", ">">>)),
      Post("p3", Str(<<"q", "r">>), Str(<<"q">>), Str(<<"<", "p", ">", "x", "q", "x", "<", "/", "p", ">", "r">>))>>
PostsB ==
    <<Post("p4", Null, Str(<<"x", "q", "x">>), Null),
      Post("p5", Str(<<"x">>), Str(<<>>), Str(<<"x", "<", "x">>))>>

PagesA ==
    <<GhostPage("g1", Str(<<"R", "q">>), Str(<<"<", "p", ">", "x", "<", "/", "p", ">">>)),
      GhostPage("g2", Null, Str(<<"x", "<", "r", ">", "q">>)),
      GhostPage("g3", Str(<<"x">>), Null)>>
PagesB ==
    <<GhostPage("g4", Str(<<"x", "r">>), Str(<<"Q", "<", "b", "r", ">">>))>>

LearnA ==
    <<LearnPage("l1", Null, Str(<<"x", "Q">>), Null, Str(<<"r">>), AbsentNode),
      LearnPage("l2", Str(<<"s">>), Str(<<"x">>), Str(<<"x">>), Null, OtherNode),
      LearnPage("l3", Str(<<"s">>), Str(<<"x">>), Str(<<"r", "x">>), Null,
                Doc(<<<<"q">>, <<"r">>>>))>>
LearnB ==
    <<LearnPage("l4", Null, Null, Null, Str(<<"q", "x">>), Doc(<<<<"x">>, <<"q", "r">>>>))>>

CasesA ==
    <<CaseStudy("k1", Null, Str(<<"x">>), Null, Null, Str(<<"x">>), Null, Str(<<"x">>),
                Str(<<"x", "q">>), AbsentNode),
      CaseStudy("k2", Null, Str(<<"x">>), Str(<<"x">>), Str(<<"x">>), Null, Null, Null, Null,
                Doc(<<<<"x">>>>)),
      CaseStudy("k3", Str(<<"e">>), Str(<<"r">>), Null, Null, Str(<<"x">>), Str(<<"R", "q">>),
                Null, Null, Doc(<<<<"q">>>>))>>
CasesB ==
    <<CaseStudy("k4", Null, Null, Null, Str(<<"Q">>), Null, Null, Str(<<"r">>), Null,
                Doc(<<<<"r">>, <<"q">>>>))>>

InternalEventsA ==
    <<InternalEvent("e1", Str(<<"x">>), Null, AbsentNode, Doc(<<<<"x">>, <<"q">>>>)),
      InternalEvent("e2", Str(<<"q", "r">>), Str(<<"q">>), Doc(<<<<"r">>>>), AbsentNode),
      InternalEvent("e3", Null, Str(<<"x">>), Doc(<<<<"x">>>>), Doc(<<>>))>>
InternalEventsB ==
    <<InternalEvent("e4", Str(<<"x">>), Str(<<"R">>), Doc(<<<<"Q">>>>), Doc(<<<<"q">>>>))>>

EventCardsA ==
    <<EventCard("d1", Str(<<"x">>), Str(<<"Q">>)),
      EventCard("d2", Null, Null),
      EventCard("d3", Str(<<"r">>), Str(<<"r", "q">>))>>
EventCardsB == <<EventCard("d4", Str(<<"q">>), Str(<<"x">>))>>

(************************** backend responses ******************************)
\* What `await res.json()` yields for one Ghost page request: "reject" when
\* fetch or res.json() throws; otherwise hasKey says json?.[dataKey] is truthy,
\* records is json[dataKey] and next says meta.pagination.next is truthy.
GhostJson(hasKey, records, next) ==
    [kind |-> "json", hasKey |-> hasKey, records |-> records, next |-> next]
GhostReject == [kind |-> "reject", hasKey |-> FALSE, records |-> <<>>, next |-> FALSE]

\* What contentfulGraphQL resolves to: hasData says result.data holds the
\* requested collections; items (and cards, for search_events) are their items.
ContentfulJson(hasData, items, cards) ==
    [kind |-> "json", hasData |-> hasData, items |-> items, cards |-> cards]
ContentfulReject == [kind |-> "reject", hasData |-> FALSE, items |-> <<>>, cards |-> <<>>]

GhostTools == {"search_blog_posts", "search_blog_pages"}
ContentfulTools == {"search_learn_pages", "search_case_studies", "search_events"}
Tools == GhostTools \cup ContentfulTools
ToolQueries == {<<"q">>, <<"r">>}

dataKey(t) == IF t = "search_blog_posts" THEN "posts" ELSE "pages"

ListA(key) == IF key = "posts" THEN PostsA ELSE PagesA
ListB(key) == IF key = "posts" THEN PostsB ELSE PagesB

ItemsA(t) ==
    CASE t = "search_learn_pages" -> ContentfulJson(TRUE, LearnA, <<>>)
      [] t = "search_case_studies" -> ContentfulJson(TRUE, CasesA, <<>>)
      [] OTHER -> ContentfulJson(TRUE, InternalEventsA, EventCardsA)
ItemsB(t) ==
    CASE t = "search_learn_pages" -> ContentfulJson(TRUE, LearnB, <<>>)
      [] t = "search_case_studies" -> ContentfulJson(TRUE, CasesB, <<>>)
      [] OTHER -> ContentfulJson(TRUE, InternalEventsB, EventCardsB)

\* The backends: "any" answers every request with any response; the others
\* answer each request in one fixed way.
Backends == {"any", "twoPages", "broken", "endless"}
FixedBackends == Backends \ {"any"}

ghostResponses(b, key, p) ==
    CASE b = "twoPages" ->
            {IF p = 1 THEN GhostJson(TRUE, ListA(key), TRUE)
             ELSE IF p = 2 THEN GhostJson(TRUE, ListB(key), FALSE)
             ELSE GhostJson(FALSE, <<>>, FALSE)}
      [] b = "broken" ->
            {IF p = 1 THEN GhostJson(TRUE, ListB(key), TRUE) ELSE GhostJson(FALSE, <<>>, FALSE)}
      [] b = "endless" -> {GhostJson(TRUE, ListB(key), TRUE)}
      [] OTHER ->
            {GhostReject}
            \cup {GhostJson(FALSE, <<>>, n) : n \in BOOLEAN}
            \cup {GhostJson(TRUE, r, n) : r \in {<<>>, ListA(key), ListB(key)}, n \in BOOLEAN}

contentfulResponses(b, t) ==
    CASE b = "twoPages" -> {ItemsA(t)}
      [] b = "broken" -> {ContentfulJson(FALSE, <<>>, <<>>)}
      [] b = "endless" -> {ItemsB(t)}
      [] OTHER ->
            {ContentfulReject, ContentfulJson(FALSE, <<>>, <<>>),
             ContentfulJson(TRUE, <<>>, <<>>), ItemsA(t), ItemsB(t)}

(************************** tool invocations *******************************)
Calls == 1..NumCalls

NoResult == ContentfulJson(FALSE, <<>>, <<>>)
NoOutput == [isError |-> FALSE, matches |-> <<>>]
\* A rejected handler promise: the caller gets an error, not a content list.
ErrorOutput == [isError |-> TRUE, matches |-> <<>>]
\* return { content: [{ type: "text", text: JSON.stringify(matches) }] }
Content(matches) == [isError |-> FALSE, matches |-> matches]

ServerIdle ==
    /\ pc = [i \in Calls |-> "idle"]
    /\ tool = [i \in Calls |-> "none"]
    /\ toolQuery = [i \in Calls |-> <<>>]
    /\ all = [i \in Calls |-> <<>>]
    /\ page = [i \in Calls |-> 1]
    /\ hasMore = [i \in Calls |-> TRUE]
    /\ result = [i \in Calls |-> NoResult]
    /\ output = [i \in Calls |-> NoOutput]
    /\ requested = [i \in Calls |-> <<>>]
    /\ received = [i \in Calls |-> <<>>]

\* all.push(...json[dataKey]) on the invocation's own array
PushAllShared(allv, i, records) == [j \in DOMAIN allv |-> allv[j] \o records]

PushAll(allv, i, records) == [allv EXCEPT ![i] = @ \o records]

\* hasMore after one response: !!json.meta?.pagination?.next if the data key
\* is there, false otherwise.
hasMoreIgnoringKey(resp) == resp.next

hasMoreAfter(resp) == IF resp.hasKey THEN resp.next ELSE FALSE

(************************ inputs of the text helpers ***********************)
RECURSIVE SeqsUpTo(_, _)
SeqsUpTo(S, n) ==
    IF n = 0 THEN {<<>>}
    ELSE LET shorter == SeqsUpTo(S, n - 1)
         IN  shorter \cup {Append(s, c) : s \in {t \in shorter : Len(t) = n - 1}, c \in S}

Pad(c, n) == [i \in 1..n |-> c]

Queries == SeqsUpTo({"q", "Q"}, MaxQueryLen) \cup {<<"Idot">>}
Cores == SeqsUpTo({"q", "Q", "x"}, MaxCoreLen)
PrefixLens == {0, contextChars - 1, contextChars, contextChars + 1}
SuffixLens == {0, contextChars, contextChars + 1, 2 * contextChars + 1}

Haystacks ==
    {Null, Str(<<>>)}
    \cup {Str(Pad("x", n) \o c \o Pad("x", m)) :
            n \in PrefixLens, c \in Cores, m \in SuffixLens}
    \cup {Str(Pad("Idot", n) \o c) : n \in PrefixLens, c \in Cores}

(************************* text specification ******************************)
InitText ==
    /\ text \in Haystacks
    /\ query \in Queries
    /\ computed = {}
    /\ matched = FALSE
    /\ snippet = Null
    /\ plainSnippet = Null
    /\ node = AbsentNode
    /\ flattened = <<>>
    /\ flatDone = FALSE
    /\ backend = "any"
    /\ concurrency = 1
    /\ ServerIdle

CallMatchesQuery ==
    /\ "matchesQuery" \notin computed
    /\ matched' = matchesQuery(text, query)
    /\ computed' = computed \cup {"matchesQuery"}
    /\ UNCHANGED <<text, query, snippet, plainSnippet, richVars, envVars, callVars>>

CallExtractSnippet ==
    /\ "extractSnippet" \notin computed
    /\ snippet' = extractSnippet(text, query)
    /\ computed' = computed \cup {"extractSnippet"}
    /\ UNCHANGED <<text, query, matched, plainSnippet, richVars, envVars, callVars>>

CallExtractPlainTextSnippet ==
    /\ "extractPlainTextSnippet" \notin computed
    /\ plainSnippet' = extractPlainTextSnippet(text, query)
    /\ computed' = computed \cup {"extractPlainTextSnippet"}
    /\ UNCHANGED <<text, query, matched, snippet, richVars, envVars, callVars>>

NextText ==
    \/ CallMatchesQuery
    \/ CallExtractSnippet
    \/ CallExtractPlainTextSnippet

SpecText == InitText /\ [][NextText]_vars

(************************ claims on the text helpers ***********************)
AllComputed == computed = {"matchesQuery", "extractSnippet", "extractPlainTextSnippet"}

\* C3: for every haystack (absent, empty or not) and every query (the empty
\* one included) matchesQuery is true exactly when extractSnippet returns a
\* snippet, and exactly when extractPlainTextSnippet returns one.
C3_MatchIffSnippet ==
    AllComputed =>
        /\ matched <=> ~snippet.isNull
        /\ matched <=> ~plainSnippet.isNull

\* The empty query on a non-empty haystack: all three agree on "found".
C3_Witness ==
    /\ AllComputed
    /\ query = <<>>
    /\ ~Falsy(text)
    /\ matched
    /\ ~snippet.isNull
    /\ ~plainSnippet.isNull

\* The places of H (0-based) where Q occurs, compared case-insensitively.
OccurrencesIn(h, q) ==
    {i \in 0..(Len(h) - Len(q)) :
        toLowerCase(SubSeq(h, i + 1, i + Len(q))) = toLowerCase(q)}

FirstOccurrenceIn(h, q) ==
    CHOOSE i \in OccurrencesIn(h, q) : \A j \in OccurrencesIn(h, q) : i <= j

WindowAround(h, q, idx) ==
    LET start == Max(0, idx - 150)
        end == Min(Len(h), idx + Len(q) + 150)
    IN  (IF start > 0 THEN Ellipsis ELSE <<>>)
        \o [k \in 1..(end - start) |-> h[start + k]]
        \o (IF end < Len(h) THEN Ellipsis ELSE <<>>)

SnippetAsClaimed(s) ==
    /\ OccurrencesIn(text.str, query) # {}
    /\ s = Str(WindowAround(text.str, query, FirstOccurrenceIn(text.str, query)))
    /\ includes(toLowerCase(s.str), toLowerCase(query))

\* C4: when H contains Q case-insensitively, first at index idx, both
\* extractors return "..." (if idx - 150 > 0), then the original characters of
\* H from max(0, idx - 150) up to min(len(H), idx + len(Q) + 150), then "..."
\* (if that end is before len(H)); the snippet contains the matched occurrence.
C4_SnippetWindow ==
    (AllComputed /\ ~Falsy(text) /\ OccurrencesIn(text.str, query) # {}) =>
        /\ SnippetAsClaimed(snippet)
        /\ SnippetAsClaimed(plainSnippet)

HasLeadingEllipsis(s) == Len(s) >= 3 /\ SubSeq(s, 1, 3) = Ellipsis
HasTrailingEllipsis(s) == Len(s) >= 3 /\ SubSeq(s, Len(s) - 2, Len(s)) = Ellipsis

\* C5 as stated: H contains Q exactly once, at index i, and
\* len(H) > i + len(Q) + 300; then the snippet has no leading "..." and has a
\* trailing "..." exactly when i + len(Q) + 150 < len(H).
C5_AsStated ==
    (/\ AllComputed
     /\ ~Falsy(text)
     /\ Cardinality(OccurrencesIn(text.str, query)) = 1) =>
        LET i == FirstOccurrenceIn(text.str, query)
        IN  Len(text.str) > i + Len(query) + 300 =>
                \A s \in {snippet.str, plainSnippet.str} :
                    /\ ~HasLeadingEllipsis(s)
                    /\ HasTrailingEllipsis(s) <=> (i + Len(query) + 150 < Len(text.str))

\* The places of the lowercased query in the lowercased haystack.
LoweredOccurrences(h, q) ==
    LET lh == toLowerCase(h)
        lq == toLowerCase(q)
    IN  {i \in 0..(Len(lh) - Len(lq)) : SubSeq(lh, i + 1, i + Len(lq)) = lq}

\* The index of the only such place, or -1 when there is none or several.
UniqueLoweredIndex(h, q) ==
    LET occ == LoweredOccurrences(h, q)
    IN  IF Cardinality(occ) = 1 THEN CHOOSE i \in occ : TRUE ELSE -1

C5_Index == IF AllComputed /\ ~Falsy(text) THEN UniqueLoweredIndex(text.str, query) ELSE -1

C5_Case == C5_Index >= 0 /\ Len(text.str) > C5_Index + Len(query) + 300

\* C5, amended: the lowercased H contains the lowercased Q exactly once, at
\* index i, and len(H) > i + len(Q) + 300; then the snippet has a leading "..."
\* exactly when i > 150 (none when i <= 150) and a trailing "..." exactly
\* when i + len(Q) + 150 < len(H).
C5_Ellipses ==
    LET i == C5_Index
    IN  (i >= 0 /\ Len(text.str) > i + Len(query) + 300) =>
            \A s \in {snippet.str, plainSnippet.str} :
                /\ HasLeadingEllipsis(s) <=> (i > 150)
                /\ HasTrailingEllipsis(s) <=> (i + Len(query) + 150 < Len(text.str))

\* The match starts exactly 150 characters in: no leading "...", a trailing one.
C5_Witness ==
    /\ C5_Index = 150
    /\ Len(text.str) > 150 + Len(query) + 300
    /\ ~HasLeadingEllipsis(snippet.str)
    /\ HasTrailingEllipsis(snippet.str)
    /\ plainSnippet = snippet

(*********************** rich-text specification ***************************)
LeafNodes ==
    {AbsentNode, TextNode(Null), TextNode(Str(<<"a">>)), TextNode(Str(<<"b">>)),
     OtherNode, TextNodeWithContent, ContainerNode(<<>>)}

\* Trees of exactly n nodes, and sequences of trees of n nodes in all.
RECURSIVE TreesOfSize(_), ForestsOfSize(_)
TreesOfSize(n) ==
    IF n = 1 THEN LeafNodes
    ELSE {ContainerNode(f) : f \in ForestsOfSize(n - 1)}
ForestsOfSize(n) ==
    IF n = 0 THEN {<<>>}
    ELSE UNION {{<<t>> \o f : t \in TreesOfSize(k), f \in ForestsOfSize(n - k)} : k \in 1..n}

RichNodes == UNION {TreesOfSize(n) : n \in 1..MaxNodes}

InitRich ==
    /\ node \in RichNodes
    /\ flattened = <<>>
    /\ flatDone = FALSE
    /\ text = Null
    /\ query = <<>>
    /\ computed = {}
    /\ matched = FALSE
    /\ snippet = Null
    /\ plainSnippet = Null
    /\ backend = "any"
    /\ concurrency = 1
    /\ ServerIdle

CallExtractTextFromRichText ==
    /\ ~flatDone
    /\ flattened' = extractTextFromRichText(node)
    /\ flatDone' = TRUE
    /\ UNCHANGED <<node, textVars, envVars, callVars>>

NextRich == CallExtractTextFromRichText

SpecRich == InitRich /\ [][NextRich]_vars

(************************* claim on the flattener **************************)
\* The texts of the children, each followed by a space except the last.
RECURSIVE SpaceSeparated(_)
SpaceSeparated(parts) ==
    IF Len(parts) = 0 THEN <<>>
    ELSE LET init == SpaceSeparated(SubSeq(parts, 1, Len(parts) - 1))
         IN  IF Len(parts) = 1 THEN parts[1] ELSE init \o <<" ">> \o parts[Len(parts)]

TwoLevelsAB ==
    ContainerNode(<<ContainerNode(<<TextNode(Str(<<"a">>)), TextNode(Str(<<"b">>))>>)>>)

\* C6: extractTextFromRichText gives "" for an absent node, the literal value
\* ("" if missing) for a text node, the children's flattenings joined by one
\* space in child order for a node with a content sequence, "" for any other
\* node; "a" and "b" under two levels of containers give "a b".
C6_Flatten ==
    flatDone =>
        /\ node.absent => flattened = <<>>
        /\ (~node.absent /\ node.nodeType = "text") =>
               flattened = (IF node.value.isNull THEN <<>> ELSE node.value.str)
        /\ (~node.absent /\ node.nodeType # "text" /\ node.isArray) =>
               flattened = SpaceSeparated(
                   [i \in 1..Len(node.content) |-> extractTextFromRichText(node.content[i])])
        /\ (~node.absent /\ node.nodeType # "text" /\ ~node.isArray) => flattened = <<>>
        /\ node = TwoLevelsAB => flattened = <<"a", " ", "b">>

C6_Witness ==
    /\ flatDone
    /\ node = TwoLevelsAB
    /\ flattened = <<"a", " ", "b">>

(************************ server specification *****************************)
InFlight == {j \in Calls : pc[j] # "idle"}

\* The MCP client calls a tool; the handler starts and reaches its first await.
CallTool(i) ==
    /\ pc[i] = "idle"
    /\ Cardinality(InFlight) < concurrency
    /\ \E t \in Tools, q \in ToolQueries :
        /\ tool' = [tool EXCEPT ![i] = t]
        /\ toolQuery' = [toolQuery EXCEPT ![i] = q]
        /\ pc' = [pc EXCEPT ![i] = IF t \in GhostTools THEN "fetching" ELSE "graphql"]
    /\ all' = [all EXCEPT ![i] = <<>>]
    /\ page' = [page EXCEPT ![i] = 1]
    /\ hasMore' = [hasMore EXCEPT ![i] = TRUE]
    /\ result' = [result EXCEPT ![i] = NoResult]
    /\ output' = [output EXCEPT ![i] = NoOutput]
    /\ requested' = [requested EXCEPT ![i] = <<>>]
    /\ received' = [received EXCEPT ![i] = <<>>]
    /\ UNCHANGED <<textVars, richVars, envVars>>

\* One iteration of the while loop of fetchAllGhostRecords.
fetchAllGhostRecords(i) ==
    /\ pc[i] = "fetching"
    /\ hasMore[i]
    /\ page[i] <= MaxPage
    /\ \E resp \in ghostResponses(backend, dataKey(tool[i]), page[i]) :
        /\ requested' = [requested EXCEPT ![i] = Append(@, page[i])]
        /\ received' = [received EXCEPT ![i] = Append(@, resp)]
        /\ IF resp.kind = "reject"
           THEN /\ pc' = [pc EXCEPT ![i] = "failed"]
                /\ output' = [output EXCEPT ![i] = ErrorOutput]
                /\ UNCHANGED <<all, hasMore, page>>
           ELSE /\ all' = IF resp.hasKey THEN PushAll(all, i, resp.records) ELSE all
                /\ hasMore' = [hasMore EXCEPT ![i] = hasMoreAfter(resp)]
                /\ page' = [page EXCEPT ![i] = @ + 1]
                /\ UNCHANGED <<pc, output>>
    /\ UNCHANGED <<textVars, richVars, envVars, tool, toolQuery, result>>

\* The await of contentfulGraphQL resolves (or rejects).
contentfulGraphQL(i) ==
    /\ pc[i] = "graphql"
    /\ \E resp \in contentfulResponses(backend, tool[i]) :
        /\ requested' = [requested EXCEPT ![i] = Append(@, 1)]
        /\ received' = [received EXCEPT ![i] = Append(@, resp)]
        /\ IF resp.kind = "reject"
           THEN /\ pc' = [pc EXCEPT ![i] = "failed"]
                /\ output' = [output EXCEPT ![i] = ErrorOutput]
                /\ UNCHANGED result
           ELSE /\ pc' = [pc EXCEPT ![i] = "received"]
                /\ result' = [result EXCEPT ![i] = resp]
                /\ UNCHANGED output
    /\ UNCHANGED <<textVars, richVars, envVars, tool, toolQuery, all, page, hasMore>>

\* result?.data?.<collection>?.items || []
itemsOf(res) == IF res.hasData THEN res.items ELSE <<>>
cardsOf(res) == IF res.hasData THEN res.cards ELSE <<>>

Finish(i, matches) ==
    /\ output' = [output EXCEPT ![i] = Content(matches)]
    /\ pc' = [pc EXCEPT ![i] = "done"]
    /\ UNCHANGED <<textVars, richVars, envVars, tool, toolQuery, all, page, hasMore,
                   result, requested, received>>

search_blog_posts(i) ==
    /\ tool[i] = "search_blog_posts"
    /\ pc[i] = "fetching"
    /\ ~hasMore[i]
    /\ Finish(i, blogPostMatches(all[i], toolQuery[i]))

search_blog_pages(i) ==
    /\ tool[i] = "search_blog_pages"
    /\ pc[i] = "fetching"
    /\ ~hasMore[i]
    /\ Finish(i, blogPageMatches(all[i], toolQuery[i]))

search_learn_pages(i) ==
    /\ tool[i] = "search_learn_pages"
    /\ pc[i] = "received"
    /\ Finish(i, learnPageMatches(itemsOf(result[i]), toolQuery[i]))

search_case_studies(i) ==
    /\ tool[i] = "search_case_studies"
    /\ pc[i] = "received"
    /\ Finish(i, caseStudyMatches(itemsOf(result[i]), toolQuery[i]))

search_events(i) ==
    /\ tool[i] = "search_events"
    /\ pc[i] = "received"
    /\ Finish(i, eventMatches(itemsOf(result[i]), cardsOf(result[i]), toolQuery[i]))

\* The handler's promise has settled: the response goes to the client and
\* the invocation's locals are gone.
Deliver(i) ==
    /\ pc[i] \in {"done", "failed"}
    /\ pc' = [pc EXCEPT ![i] = "idle"]
    /\ tool' = [tool EXCEPT ![i] = "none"]
    /\ toolQuery' = [toolQuery EXCEPT ![i] = <<>>]
    /\ all' = [all EXCEPT ![i] = <<>>]
    /\ page' = [page EXCEPT ![i] = 1]
    /\ hasMore' = [hasMore EXCEPT ![i] = TRUE]
    /\ result' = [result EXCEPT ![i] = NoResult]
    /\ output' = [output EXCEPT ![i] = NoOutput]
    /\ requested' = [requested EXCEPT ![i] = <<>>]
    /\ received' = [received EXCEPT ![i] = <<>>]
    /\ UNCHANGED <<textVars, richVars, envVars>>

TextIdle ==
    /\ text = Null
    /\ query = <<>>
    /\ computed = {}
    /\ matched = FALSE
    /\ snippet = Null
    /\ plainSnippet = Null
    /\ node = AbsentNode
    /\ flattened = <<>>
    /\ flatDone = FALSE

\* One invocation at a time, against any backend.
Init ==
    /\ backend \in Backends
    /\ concurrency = 1
    /\ ServerIdle
    /\ TextIdle

\* Up to NumCalls invocations in flight, against a backend that answers
\* each request in one fixed way.
InitConc ==
    /\ backend \in FixedBackends
    /\ concurrency = NumCalls
    /\ ServerIdle
    /\ TextIdle

Next ==
    \E i \in Calls :
        \/ CallTool(i)
        \/ fetchAllGhostRecords(i)
        \/ contentfulGraphQL(i)
        \/ search_blog_posts(i)
        \/ search_blog_pages(i)
        \/ search_learn_pages(i)
        \/ search_case_studies(i)
        \/ search_events(i)
        \/ Deliver(i)

Spec == Init /\ [][Next]_vars

SpecConc == InitConc /\ [][Next]_vars

\* Every outstanding page request is eventually answered.
FairSpec == Init /\ [][Next]_vars /\ \A i \in Calls : WF_vars(fetchAllGhostRecords(i))

(************************* claims on the server ****************************)
ContinuePage(r) == r.kind = "json" /\ r.hasKey /\ r.next
StopPage(r) == r.kind = "json" /\ (~r.hasKey \/ ~r.next)

\* The records of the pages of a log that had the data key, in page order.
RECURSIVE RecordsOf(_)
RecordsOf(log) ==
    IF Len(log) = 0 THEN <<>>
    ELSE LET last == log[Len(log)]
             before == RecordsOf(SubSeq(log, 1, Len(log) - 1))
         IN  IF last.kind = "json" /\ last.hasKey THEN before \o last.records ELSE before

Tagged(shape, recs) == [k \in 1..Len(recs) |-> [shape |-> shape, rec |-> recs[k]]]

\* The records an invocation was served, each with its shape, in retrieval order.
FetchedOf(t, log) ==
    CASE t = "search_blog_posts" -> Tagged("blog post", RecordsOf(log))
      [] t = "search_blog_pages" -> Tagged("blog page", RecordsOf(log))
      [] t = "search_learn_pages" ->
            Tagged("learn page", IF log[1].hasData THEN log[1].items ELSE <<>>)
      [] t = "search_case_studies" ->
            Tagged("case study", IF log[1].hasData THEN log[1].items ELSE <<>>)
      [] OTHER ->
            Tagged("event page", IF log[1].hasData THEN log[1].items ELSE <<>>)
            \o Tagged("event card", IF log[1].hasData THEN log[1].cards ELSE <<>>)

MarkupText(html) == IF html.isNull THEN Str(<<>>) ELSE Str(stripHtml(html.str))
FlatText(n) == Str(extractTextFromRichText(n))

\* The shape's inclusion fields, resolved to text, in declared priority order.
FieldTexts(e) ==
    CASE e.shape = "blog post" -> <<e.rec.title, e.rec.excerpt, MarkupText(e.rec.html)>>
      [] e.shape = "blog page" -> <<e.rec.title, MarkupText(e.rec.html)>>
      [] e.shape = "learn page" ->
            <<e.rec.title, e.rec.metaTitle, e.rec.metaDescription, FlatText(e.rec.content)>>
      [] e.shape = "case study" ->
            <<e.rec.name, e.rec.metaTitle, e.rec.metaDescription, e.rec.overview,
              e.rec.quoteText, e.rec.useCase, e.rec.impact, FlatText(e.rec.content)>>
      [] e.shape = "event page" ->
            <<e.rec.heroTitle, e.rec.metaDescription,
              FlatText(e.rec.additionalEventDetails), FlatText(e.rec.agenda)>>
      [] OTHER -> <<e.rec.title, e.rec.description>>

MatchingFields(e, q) == {k \in DOMAIN FieldTexts(e) : matchesQuery(FieldTexts(e)[k], q)}

SourceKey(e) ==
    CASE e.shape \in {"blog post", "blog page", "case study"} -> e.rec.slug
      [] e.shape \in {"learn page", "event page"} -> e.rec.url
      [] OTHER -> e.rec.link

ResultKey(shape, m) ==
    CASE shape \in {"blog post", "blog page", "case study"} -> m.slug
      [] OTHER -> m.url[Len(m.url)]

Retained(src, q) == {k \in DOMAIN src : MatchingFields(src[k], q) # {}}

\* The j-th smallest member of a set of indices.
Nth(S, j) == CHOOSE k \in S : Cardinality({m \in S : m <= k}) = j

\* C7: the result list is the order-preserving subsequence of the fetched
\* records made of exactly those that match on at least one inclusion field
\* (for search_events: the matching event pages, then the matching cards).
C7_StableFilter ==
    \A i \in Calls :
        pc[i] = "done" =>
            LET src == FetchedOf(tool[i], received[i])
                keep == Retained(src, toolQuery[i])
                ms == output[i].matches
            IN  /\ ~output[i].isError
                /\ Len(ms) = Cardinality(keep)
                /\ \A j \in 1..Len(ms) :
                       ResultKey(src[Nth(keep, j)].shape, ms[j]) = SourceKey(src[Nth(keep, j)])

\* search_events kept two of three event pages and two of three event cards.
C7_Witness ==
    \E i \in Calls :
        /\ pc[i] = "done"
        /\ tool[i] = "search_events"
        /\ Len(FetchedOf(tool[i], received[i])) = 6
        /\ Len(output[i].matches) = 4
        /\ output[i].matches[2].type = "internal_event"
        /\ output[i].matches[3].type = "event_card"

\* C1: for every tool and every retained record, matched_snippet is the snippet
\* of the earliest field, in the shape's priority order, that contains the query.
C1_SnippetFromFirstMatchingField ==
    \A i \in Calls :
        pc[i] = "done" =>
            LET src == FetchedOf(tool[i], received[i])
                keep == Retained(src, toolQuery[i])
                ms == output[i].matches
            IN  \A j \in 1..Len(ms) :
                    LET e == src[Nth(keep, j)]
                        first == Nth(MatchingFields(e, toolQuery[i]), 1)
                    IN  ms[j].matched_snippet =
                            extractPlainTextSnippet(FieldTexts(e)[first], toolQuery[i])

\* C2: in search_blog_posts a post whose excerpt (and nothing before it)
\* contains the query while its stripped body does not is in the result with a
\* snippet made from the excerpt: the whole excerpt, with no "...", when it is
\* shorter than 150 + len(query) + 150.
C2_ExcerptSnippet ==
    \A i \in Calls :
        (pc[i] = "done" /\ tool[i] = "search_blog_posts") =>
            \A k \in DOMAIN all[i] :
                LET p == all[i][k]
                    q == toolQuery[i]
                IN  (/\ matchesQuery(p.excerpt, q)
                     /\ ~matchesQuery(p.title, q)
                     /\ ~matchesQuery(MarkupText(p.html), q)) =>
                        \E j \in DOMAIN output[i].matches :
                            LET m == output[i].matches[j]
                            IN  /\ m.slug = p.slug
                                /\ ~m.matched_snippet.isNull
                                /\ Len(p.excerpt.str) < 150 + Len(q) + 150 =>
                                       m.matched_snippet = p.excerpt

\* A response that is an error payload or lacks the expected data.
RetrievalFailure(t, r) ==
    \/ r.kind = "reject"
    \/ t \in GhostTools /\ ~r.hasKey
    \/ t \in ContentfulTools /\ ~r.hasData

\* C8: an invocation that met a retrieval failure ends in an error, never in
\* a (possibly empty or truncated) match list.
C8_FailureSurfaced ==
    \A i \in Calls :
        (/\ pc[i] \in {"done", "failed"}
         /\ \E k \in DOMAIN received[i] : RetrievalFailure(tool[i], received[i][k])) =>
            output[i].isError

\* What one invocation running alone against backend b fetches and returns.
RECURSIVE AloneRecords(_, _, _)
AloneRecords(b, key, p) ==
    LET resp == CHOOSE r \in ghostResponses(b, key, p) : TRUE
    IN  IF ~resp.hasKey THEN <<>>
        ELSE resp.records \o (IF resp.next /\ p < MaxPage THEN AloneRecords(b, key, p + 1)
                              ELSE <<>>)

AloneItems(b, t) ==
    LET resp == CHOOSE r \in contentfulResponses(b, t) : TRUE
    IN  IF resp.hasData THEN resp ELSE ContentfulJson(FALSE, <<>>, <<>>)

AloneOutput(b, t, q) ==
    Content(
        CASE t = "search_blog_posts" -> blogPostMatches(AloneRecords(b, "posts", 1), q)
          [] t = "search_blog_pages" -> blogPageMatches(AloneRecords(b, "pages", 1), q)
          [] t = "search_learn_pages" -> learnPageMatches(AloneItems(b, t).items, q)
          [] t = "search_case_studies" -> caseStudyMatches(AloneItems(b, t).items, q)
          [] OTHER -> eventMatches(AloneItems(b, t).items, AloneItems(b, t).cards, q))

\* C9: whatever the interleaving of concurrent invocations, each accumulates
\* only the records of its own responses and returns what it would return
\* running alone against the same backend.
C9_Isolation ==
    \A i \in Calls :
        /\ pc[i] = "fetching" => all[i] = RecordsOf(received[i])
        /\ pc[i] = "received" => result[i] = received[i][1]
        /\ pc[i] = "done" => output[i] = AloneOutput(backend, tool[i], toolQuery[i])

\* Two invocations of the same Ghost tool are both in the middle of their
\* page loops, each holding the records of its own first page.
C9_Witness ==
    \E i, j \in Calls :
        /\ i # j
        /\ pc[i] = "fetching" /\ pc[j] = "fetching"
        /\ tool[i] = tool[j]
        /\ hasMore[i] /\ hasMore[j]
        /\ Len(requested[i]) = 1 /\ Len(requested[j]) = 1
        /\ all[i] # <<>> /\ all[j] # <<>>

C10_Safety ==
    \A i \in Calls :
        (tool[i] \in GhostTools /\ pc[i] \in {"fetching", "done"}) =>
            /\ requested[i] = [k \in 1..Len(requested[i]) |-> k]
            /\ Len(received[i]) = Len(requested[i])
            /\ page[i] = Len(requested[i]) + 1
            /\ \A k \in 1..(Len(received[i]) - 1) : ContinuePage(received[i][k])
            /\ hasMore[i] <=> (received[i] = <<>> \/ ContinuePage(received[i][Len(received[i])]))
            /\ ~hasMore[i] => StopPage(received[i][Len(received[i])])
            /\ all[i] = RecordsOf(received[i])

\* The backend is sure to answer some page from the current one on with a
\* response that lacks the data key or the 'next' marker.
SureToStop(i) ==
    \E p \in page[i]..MaxPage :
        \A r \in ghostResponses(backend, dataKey(tool[i]), p) : StopPage(r)

LoopRunning(i) == pc[i] = "fetching" /\ hasMore[i]

\* C10: fetchAllGhostRecords requests pages 1, 2, 3, ... one at a time, stops
\* right after the first page that lacks the data key or the 'next' marker,
\* holds the concatenation in page order of the records of the pages that had
\* the data key; it keeps running while every response has both, and ends
\* once the backend returns a page that has not.
C10_Paging ==
    /\ []C10_Safety
    /\ \A i \in Calls : (LoopRunning(i) /\ SureToStop(i)) ~> ~LoopRunning(i)

\* Page 1 had records and a 'next' marker, page 2 lacked the data key: the
\* loop is over with page 1's records.
C10_Witness ==
    \E i \in Calls :
        /\ pc[i] = "fetching"
        /\ ~hasMore[i]
        /\ requested[i] = <<1, 2>>
        /\ ~received[i][2].hasKey
        /\ all[i] = received[i][1].records
        /\ all[i] # <<>>

====
